---- MODULE Spec2Model ----
(***************************************************************************)
(* Model of sc2/game_info.py: GameInfo._find_groups (flood fill grouping   *)
(* of a set of grid points) and the cached geometry accessors of Ramp.     *)
(***************************************************************************)
EXTENDS Integers, Sequences, FiniteSets, TLC

VARIABLES
    \* ---- GameInfo._find_groups ----
    points,                     \* argument: the Candidate Set
    minimum_points_per_group,   \* argument
    max_distance_between_points,\* argument
    picture,                    \* label array, indexed by cell <<x, y>>
    currentColor,
    remaining,
    queue,
    currentGroup,
    foundGroups,
    base,                       \* the cell popped from the queue (line 227)
    pc,                         \* position in _find_groups
    colorings,                  \* per cell: number of paint() calls with a color >= 0
    \* ---- Ramp ----
    ramp_points,                \* Ramp._points
    terrain_height,             \* game_info.terrain_height, seen through height_at
    cache,                      \* Ramp.cache: the memoized values (field has: the keys)
    first,                      \* per accessor: the value its first access returned
    changed,                    \* accessors of which some access returned another value
    raised,                     \* whether a call of an accessor has raised
    mutated,                    \* whether the caller has mutated a returned set
    \* ---- the loops of Ramp.upper and Ramp.lower, point by point ----
    scan_pc,
    scan_todo,                  \* the points the for loop has not yielded yet
    scan_upper,                 \* current_max and result of upper
    scan_lower                  \* current_min and result of lower

gvars == <<points, minimum_points_per_group, max_distance_between_points, picture,
           currentColor, remaining, queue, currentGroup, foundGroups, base, pc,
           colorings>>

rvars == <<ramp_points, terrain_height, cache, first, changed, raised, mutated>>

svars == <<scan_pc, scan_todo, scan_upper, scan_lower>>

vars == <<gvars, rvars, svars>>

-----------------------------------------------------------------------------
\* Bounds of the model
MaxWidth == 4
MaxPoints == 4
MaxMinimum == 2
MaxRampCells == 6

\* Program constants
NOT_INTERESTED == -2
NOT_COLORED_YET == -1
DefaultMaxDistance == 2

map_width == MaxWidth
map_height == 2

Cells == (0 .. map_width - 1) \X (0 .. map_height - 1)

Abs(n) == IF n < 0 THEN -n ELSE n

Manhattan(p, q) == Abs(p[1] - q[1]) + Abs(p[2] - q[2])

Range(s) == {s[i] : i \in DOMAIN s}

\* The least cell of a set, by x and then y, and the cells in that order.
Least(S) == CHOOSE p \in S : \A q \in S : p[1] < q[1] \/ (p[1] = q[1] /\ p[2] <= q[2])

RECURSIVE SortedSeq(_)
SortedSeq(S) == IF S = {} THEN <<>> ELSE <<Least(S)>> \o SortedSeq(S \ {Least(S)})

\* Ramp.cache = {} (line 17); a key not in has holds a placeholder of its type.
EmptyCache ==
    [has |-> {}, size |-> 0, points |-> {}, upper |-> {}, lower |-> {},
     top_center |-> <<0, 0>>, bottom_center |-> <<0, 0>>,
     upper2_for_ramp_wall |-> {}, barracks_in_middle |-> <<0, 0>>,
     depot_in_middle |-> <<0, 0>>, corner_depots |-> {},
     barracks_can_fit_addon |-> FALSE, barracks_correct_placement |-> <<0, 0>>]

\* No _find_groups call is in progress.
GroupsIdle ==
    /\ points = {}
    /\ minimum_points_per_group = 0
    /\ max_distance_between_points = 0
    /\ picture = <<>>
    /\ currentColor = NOT_COLORED_YET
    /\ remaining = {}
    /\ queue = <<>>
    /\ currentGroup = {}
    /\ foundGroups = <<>>
    /\ base = <<0, 0>>
    /\ pc = "idle"
    /\ colorings = <<>>

\* No Ramp has been constructed.
RampIdle ==
    /\ ramp_points = {}
    /\ terrain_height = <<>>
    /\ cache = EmptyCache
    /\ first = EmptyCache
    /\ changed = {}
    /\ raised = FALSE
    /\ mutated = FALSE

\* No loop of upper or lower is being followed.
ScanIdle ==
    /\ scan_pc = "idle"
    /\ scan_todo = {}
    /\ scan_upper = <<>>
    /\ scan_lower = <<>>

-----------------------------------------------------------------------------
\* Mutant of nearby: a square (Chebyshev) neighbourhood instead of the diamond.
nearbySquare(d) ==
    {<<dx, dy>> \in (-d .. d) \X (-d .. d) : Abs(dx) <= d /\ Abs(dy) <= d}

\* Mutant of nearby: only offsets pointing right/down, an asymmetric adjacency.
nearbyOneWay(d) ==
    {<<dx, dy>> \in (0 .. d) \X (0 .. d) : Abs(dx) + Abs(dy) <= d}

\* The neighbour offsets, lines 205-210.
nearby(d) ==
    {<<dx, dy>> \in (-d .. d) \X (-d .. d) : Abs(dx) + Abs(dy) <= d}

\* paint(pt) with the current color, lines 202-203.
paint(pic, pt, color) == [pic EXCEPT ![pt] = color]

\* Mutant of MeetsMinimum: an exclusive threshold.
MeetsMinimumStrict(group, minimum) == Cardinality(group) > minimum

\* The size filter of line 239.
MeetsMinimum(group, minimum) == Cardinality(group) >= minimum

\* Mutant of Uncolored: every candidate cell counts as paintable, colored or not.
UncoloredAnyCandidate(pic, p) == pic[p] # NOT_INTERESTED

\* The test of line 232 (negated): the cell is still paintable.
Uncolored(pic, p) == pic[p] = NOT_COLORED_YET

\* The bounds check of line 230 (negated).
InMap(p) == p[1] >= 0 /\ p[2] >= 0 /\ p[1] < map_width /\ p[2] < map_height

\* The cells the scan of `base` would still paint: offsets of nearby that pass
\* the checks of lines 230 and 232.
Paintable(pic, b, d) ==
    {p \in {<<b[1] + o[1], b[2] + o[2]>> : o \in nearby(d)} :
        InMap(p) /\ Uncolored(pic, p)}

Count(c) == IF currentColor >= 0 THEN [colorings EXCEPT ![c] = @ + 1] ELSE colorings

\* State after lines 195-217: every candidate painted NOT_COLORED_YET.
InitGroups ==
    /\ points \in {s \in SUBSET Cells : Cardinality(s) <= MaxPoints}
    /\ minimum_points_per_group \in 1 .. MaxMinimum
    /\ max_distance_between_points \in 0 .. DefaultMaxDistance
    /\ picture = [c \in Cells |-> IF c \in points THEN NOT_COLORED_YET ELSE NOT_INTERESTED]
    /\ currentColor = NOT_COLORED_YET
    /\ remaining = points
    /\ queue = <<>>
    /\ currentGroup = {}
    /\ foundGroups = <<>>
    /\ base = <<0, 0>>
    /\ pc = "outer"
    /\ colorings = [c \in Cells |-> 0]
    /\ RampIdle
    /\ ScanIdle

\* Mutant of Seed: the start cell is not painted (line 223 left out).
SeedNoPaint ==
    /\ pc = "outer"
    /\ remaining # {}
    /\ \E start \in remaining :
        /\ currentColor' = currentColor + 1
        /\ remaining' = remaining \ {start}
        /\ picture' = picture
        /\ colorings' = colorings
        /\ queue' = Append(queue, start)
        /\ currentGroup' = {start}
    /\ pc' = "queue"
    /\ UNCHANGED <<rvars, svars>>
    /\ UNCHANGED <<points, minimum_points_per_group, max_distance_between_points,
                   foundGroups, base>>

\* Lines 218-225: a new group is started from an arbitrary remaining cell.
Seed ==
    /\ pc = "outer"
    /\ remaining # {}
    /\ IF queue = <<>>
       THEN \E start \in remaining :
               /\ currentColor' = currentColor + 1
               /\ remaining' = remaining \ {start}
               /\ picture' = paint(picture, start, currentColor + 1)
               /\ colorings' = [colorings EXCEPT ![start] = @ + 1]
               /\ queue' = Append(queue, start)
               /\ currentGroup' = {start}
       ELSE /\ currentGroup' = {}
            /\ UNCHANGED <<currentColor, remaining, picture, colorings, queue>>
    /\ pc' = "queue"
    /\ UNCHANGED <<rvars, svars>>
    /\ UNCHANGED <<points, minimum_points_per_group, max_distance_between_points,
                   foundGroups, base>>

\* Lines 226-227: the next base cell leaves the queue.
PopBase ==
    /\ pc = "queue"
    /\ queue # <<>>
    /\ base' = Head(queue)
    /\ queue' = Tail(queue)
    /\ pc' = "scan"
    /\ UNCHANGED <<rvars, svars>>
    /\ UNCHANGED <<points, minimum_points_per_group, max_distance_between_points,
                   picture, currentColor, remaining, currentGroup, foundGroups,
                   colorings>>

\* Lines 228-238 for one offset that passes both checks. The offsets are
\* enumerated in the set's arbitrary order; the offsets that fail a check
\* change nothing, so the order of the passing ones is the order of effects.
\* remaining.remove(point) raises KeyError when the point is missing.
ColorNeighbor ==
    /\ pc = "scan"
    /\ \E point \in Paintable(picture, base, max_distance_between_points) :
        IF point \in remaining
        THEN /\ remaining' = remaining \ {point}
             /\ picture' = paint(picture, point, currentColor)
             /\ colorings' = Count(point)
             /\ queue' = Append(queue, point)
             /\ currentGroup' = currentGroup \cup {point}
             /\ pc' = "scan"
        ELSE /\ pc' = "raised"
             /\ UNCHANGED <<remaining, picture, colorings, queue, currentGroup>>
    /\ UNCHANGED <<rvars, svars>>
    /\ UNCHANGED <<points, minimum_points_per_group, max_distance_between_points,
                   currentColor, foundGroups, base>>

\* Line 228: the for loop over nearby is exhausted.
EndScan ==
    /\ pc = "scan"
    /\ Paintable(picture, base, max_distance_between_points) = {}
    /\ pc' = "queue"
    /\ UNCHANGED <<rvars, svars>>
    /\ UNCHANGED <<points, minimum_points_per_group, max_distance_between_points,
                   picture, currentColor, remaining, queue, currentGroup,
                   foundGroups, base, colorings>>

\* Lines 226, 239-240: the queue is empty, the group is kept if large enough.
EndGroup ==
    /\ pc = "queue"
    /\ queue = <<>>
    /\ foundGroups' = IF MeetsMinimum(currentGroup, minimum_points_per_group)
                      THEN Append(foundGroups, currentGroup)
                      ELSE foundGroups
    /\ pc' = "outer"
    /\ UNCHANGED <<rvars, svars>>
    /\ UNCHANGED <<points, minimum_points_per_group, max_distance_between_points,
                   picture, currentColor, remaining, queue, currentGroup, base,
                   colorings>>

\* Lines 218, 241: nothing remains, foundGroups is returned.
Return ==
    /\ pc = "outer"
    /\ remaining = {}
    /\ pc' = "done"
    /\ UNCHANGED <<rvars, svars>>
    /\ UNCHANGED <<points, minimum_points_per_group, max_distance_between_points,
                   picture, currentColor, remaining, queue, currentGroup,
                   foundGroups, base, colorings>>

NextGroups == Seed \/ PopBase \/ ColorNeighbor \/ EndScan \/ EndGroup \/ Return

SpecGroups == InitGroups /\ [][NextGroups]_vars

\* _find_groups is one synchronous call: once started it runs to its end.
FairSpecGroups == SpecGroups /\ WF_vars(NextGroups)

-----------------------------------------------------------------------------
\* Ramp. Coordinates of Point2 values are numbers with Scale units per 1.0:
\* grid cells and the centers of at most MaxRampCells cells are exact,
\* quotients round to the nearest unit and square roots round down.

RECURSIVE GCD(_, _)
GCD(a, b) == IF b = 0 THEN a ELSE GCD(b, a % b)

RECURSIVE LCMUpTo(_)
LCMUpTo(n) == IF n <= 1 THEN 1 ELSE (LCMUpTo(n - 1) * n) \div GCD(LCMUpTo(n - 1), n)

Scale == 4 * LCMUpTo(MaxRampCells)

\* The first k cells, row by row, of a grid three cells wide.
FirstCells(k) == {<<i % 3, i \div 3>> : i \in 0 .. k - 1}

\* The cells a Ramp of the model is made of.
RampCells == FirstCells(MaxRampCells)

\* a / b for b > 0.
Div(a, b) == IF a >= 0 THEN (2 * a + b) \div (2 * b) ELSE -((2 * (-a) + b) \div (2 * b))

\* The largest r in lo .. hi with r * r <= n, by bisection.
SqrtBetween[n \in Nat, lo \in Nat, hi \in Nat] ==
    IF lo >= hi THEN lo
    ELSE LET mid == (lo + hi + 1) \div 2
         IN IF mid * mid <= n THEN SqrtBetween[n, mid, hi] ELSE SqrtBetween[n, lo, mid - 1]

\* n ** 0.5
Sqrt(n) == SqrtBetween[n, 0, IF n < 16777216 THEN 4095 ELSE 46340]

\* Point2 of a grid cell.
Point2(cell) == <<cell[1] * Scale, cell[2] * Scale>>

\* Point2._distance_squared, in squared units.
distance_squared(p, q) == (p[1] - q[1]) * (p[1] - q[1]) + (p[2] - q[2]) * (p[2] - q[2])

\* Point2.distance_to
distance_to(p, q) == Sqrt(distance_squared(p, q))

\* Point2.offset
offset(p, o) == <<p[1] + o[1], p[2] + o[2]>>

\* Ramp.x_offset = 0.5 and Ramp.y_offset = -0.5, lines 15-16.
x_offset == Scale \div 2
y_offset == -(Scale \div 2)

TowardsBy(p, q, d, distance) ==
    <<p[1] + Div(Div((q[1] - p[1]) * Scale, d) * distance, Scale),
      p[2] + Div(Div((q[2] - p[2]) * Scale, d) * distance, Scale)>>

\* Point2.towards(q, distance): p + (q - p) / d * distance.
towards(p, q, distance) == IF p = q THEN p ELSE TowardsBy(p, q, distance_to(p, q), distance)

\* The two points at the stretched, rotated offsets from the center.
Intersections(center, stretched) ==
    {offset(center, <<stretched[2], -stretched[1]>>),
     offset(center, <<-stretched[2], stretched[1]>>)}

StretchedOffset(offsetToCenter, vectorStretchFactor) ==
    <<Div(offsetToCenter[1] * vectorStretchFactor, Scale),
      Div(offsetToCenter[2] * vectorStretchFactor, Scale)>>

IntersectionsAt(p, offsetToCenter, remainingDistanceFromCenter, halfd) ==
    Intersections(offset(p, offsetToCenter),
                  StretchedOffset(offsetToCenter,
                                  Div(remainingDistanceFromCenter * Scale, halfd)))

CircleIntersection(p, q, halfd, rr) ==
    IF p = q \/ Sqrt(rr) < halfd
    THEN [ok |-> FALSE, v |-> {}]
    ELSE [ok |-> TRUE,
          v |-> IntersectionsAt(p, <<Div(q[1] - p[1], 2), Div(q[2] - p[2], 2)>>,
                                Sqrt(rr - halfd * halfd), halfd)]

\* Point2.circle_intersection(q, r) for r * r = r2x2 / 2: the points at
\* distance r of both p and q, reached from the center of p and q by the
\* half offset rotated and stretched; it fails (ok = FALSE) when p = q or
\* r < d / 2.
circle_intersection(p, q, r2x2) ==
    CircleIntersection(p, q, Div(distance_to(p, q), 2), (r2x2 * Scale * Scale) \div 2)

RECURSIVE SumOf(_, _)
SumOf(S, i) == IF S = {} THEN 0 ELSE LET c == Least(S) IN c[i] + SumOf(S \ {c}, i)

\* Lines 69-72 and 91-94: the mean of the coordinates of a set of cells.
Center(S) ==
    <<Div(SumOf(S, 1) * Scale, Cardinality(S)), Div(SumOf(S, 2) * Scale, Cardinality(S))>>

\* Ramp.height_at, lines 31-32.
height_at(p) == terrain_height[p]

\* Orders in which a set may be iterated: the rotations of its sorted
\* sequence and of the reverse of it.
Orders(S) ==
    IF S = {} THEN {<<>>}
    ELSE LET s == SortedSeq(S)
             n == Len(s)
             Rot(q, k) == [i \in 1 .. n |-> q[((i + k - 1) % n) + 1]]
             rev == [i \in 1 .. n |-> s[n + 1 - i]]
         IN {Rot(s, k) : k \in 0 .. n - 1} \cup {Rot(rev, k) : k \in 0 .. n - 1}

\* Mutant of UpperStep: a point as high as the running maximum is skipped.
UpperStepDropTies(st, p) ==
    LET height == height_at(p)
    IN IF height <= st.current THEN st
       ELSE [current |-> height, result |-> {p}]

\* One iteration of the loop of upper, lines 43-51.
UpperStep(st, p) ==
    LET height == height_at(p)
    IN IF height < st.current THEN st
       ELSE IF height = st.current THEN [st EXCEPT !.result = @ \cup {p}]
       ELSE [current |-> height, result |-> {p}]

\* One iteration of the loop of lower, lines 78-86.
LowerStep(st, p) ==
    LET height == height_at(p)
    IN IF height > st.current THEN st
       ELSE IF height = st.current THEN [st EXCEPT !.result = @ \cup {p}]
       ELSE [current |-> height, result |-> {p}]

\* Lines 41-42 and 76-77.
UpperStart == [current |-> -10000, result |-> {}]
LowerStart == [current |-> 10000, result |-> {}]

RECURSIVE UpperScan(_)
\* Lines 41-52 with self._points iterated in the order ord.
UpperScan(ord) ==
    IF ord = <<>> THEN UpperStart
    ELSE UpperStep(UpperScan(SubSeq(ord, 1, Len(ord) - 1)), ord[Len(ord)])

RECURSIVE LowerScan(_)
\* Lines 76-87 with self._points iterated in the order ord.
LowerScan(ord) ==
    IF ord = <<>> THEN LowerStart
    ELSE LowerStep(LowerScan(SubSeq(ord, 1, Len(ord) - 1)), ord[Len(ord)])

\* The sort key of line 62.
SortKey(x, bc) == distance_squared(Point2(x), bc)

\* x put behind the elements of the sorted list pre that go before it.
InsertAfter(pre, x, k) == SubSeq(pre, 1, k) \o <<x>> \o SubSeq(pre, k + 1, Len(pre))

InsertAscending(pre, x, bc) ==
    InsertAfter(pre, x,
        Cardinality({i \in DOMAIN pre : SortKey(pre[i], bc) <= SortKey(x, bc)}))

InsertDescending(pre, x, bc) ==
    InsertAfter(pre, x,
        Cardinality({i \in DOMAIN pre : SortKey(pre[i], bc) >= SortKey(x, bc)}))

RECURSIVE SortedAscending(_, _)
\* Mutant of SortedDescending: reverse=True left out.
SortedAscending(list, bc) ==
    IF list = <<>> THEN <<>>
    ELSE InsertAscending(SortedAscending(SubSeq(list, 1, Len(list) - 1), bc),
                         list[Len(list)], bc)

RECURSIVE SortedDescending(_, _)
\* sorted(list, key=..., reverse=True) of line 62: stable, so equal keys
\* keep the order of the list.
SortedDescending(list, bc) ==
    IF list = <<>> THEN <<>>
    ELSE InsertDescending(SortedDescending(SubSeq(list, 1, Len(list) - 1), bc),
                          list[Len(list)], bc)

\* Lines 63-65: pop() until two are left.
KeepTwo(upper2) == Range(SubSeq(upper2, 1, IF Len(upper2) > 2 THEN 2 ELSE Len(upper2)))

\* max(intersects, key=distance to anyLowerPoint) of lines 106 and 119: the
\* first maximum in the iteration order of the set, so any of the maxima.
MaxByDistance(intersects, anyLowerPoint) ==
    {p \in intersects : \A q \in intersects :
        distance_squared(p, anyLowerPoint) >= distance_squared(q, anyLowerPoint)}

\* Lines 101-102 and their like: the two points popped and shifted.
Shifted(cell) == offset(Point2(cell), <<x_offset, y_offset>>)

\* The cutoff of line 57.
UpperLimit == 5

\* The Ramp's memo state while an accessor runs: the cache, and the record
\* of the first value each accessor returned.
Memo == [cache |-> cache, first |-> first, changed |-> changed]

\* What an access yields: the memo state after it, whether it returned (ok)
\* or raised, the value, and whether the value is the cache's own object
\* (alias) or a copy of it.
Ok(m, v) == [m |-> m, ok |-> TRUE, v |-> v, alias |-> FALSE]
Err(m, n) == [m |-> m, ok |-> FALSE, v |-> EmptyCache[n], alias |-> FALSE]

Bind(S, F(_)) == UNION {F(o) : o \in S}

\* The memoization both decorators do: f runs on the first access and its
\* value is stored under the accessor's name; later accesses return the
\* stored value; a raise stores nothing.
Memoized(n, m, f(_), alias) ==
    IF n \in m.cache.has
    THEN {[m |-> IF m.cache[n] = m.first[n] THEN m
                 ELSE [m EXCEPT !.changed = @ \cup {n}],
           ok |-> TRUE, v |-> m.cache[n], alias |-> alias]}
    ELSE {IF o.ok
          THEN [m |-> [cache |-> [o.m.cache EXCEPT ![n] = o.v, !.has = @ \cup {n}],
                       first |-> [o.m.first EXCEPT ![n] = o.v, !.has = @ \cup {n}],
                       changed |-> o.m.changed],
                ok |-> TRUE, v |-> o.v, alias |-> alias]
          ELSE Err(o.m, n) : o \in f(m)}

\* @property_immutable_cache: the cached object itself is returned.
property_immutable_cache(n, m, f(_)) == Memoized(n, m, f, TRUE)

\* @property_mutable_cache: a copy of the cached object is returned.
property_mutable_cache(n, m, f(_)) == Memoized(n, m, f, FALSE)

\* The memo state after both elements were popped out of the set an access
\* returned (lines 101-102, 114-115, 127-128).
Popped(o, n) == IF o.alias THEN [o.m EXCEPT !.cache[n] = {}] ELSE o.m

\* Ramp.size, lines 27-29.
size(m) == property_immutable_cache("size", m, LAMBDA self : {Ok(self, Cardinality(ramp_points))})

\* Ramp.points, lines 34-36.
Ramp_points(m) == property_mutable_cache("points", m, LAMBDA self : {Ok(self, ramp_points)})

\* Ramp.upper, lines 38-52.
upper(m) ==
    property_mutable_cache("upper", m, LAMBDA self :
        {Ok(self, UpperScan(ord).result) : ord \in Orders(ramp_points)})

\* Ramp.lower, lines 74-87.
lower(m) ==
    property_mutable_cache("lower", m, LAMBDA self :
        {Ok(self, LowerScan(ord).result) : ord \in Orders(ramp_points)})

\* Ramp.top_center, lines 67-72 (division by zero on an empty set).
top_center(m) ==
    property_immutable_cache("top_center", m, LAMBDA self :
        Bind(upper(self), LAMBDA o :
            IF o.v = {} THEN {Err(o.m, "top_center")} ELSE {Ok(o.m, Center(o.v))}))

\* Ramp.bottom_center, lines 89-94.
bottom_center(m) ==
    property_immutable_cache("bottom_center", m, LAMBDA self :
        Bind(lower(self), LAMBDA o :
            IF o.v = {} THEN {Err(o.m, "bottom_center")} ELSE {Ok(o.m, Center(o.v))}))

\* The body of upper2_for_ramp_wall, lines 57-65; list(self.upper) comes in
\* any order, and the key reads self.bottom_center once there is an element.
upper2_body(m, limit, sorted(_, _)) ==
    Bind(upper(m), LAMBDA o1 :
        IF Cardinality(o1.v) > limit THEN {Ok(o1.m, {})}
        ELSE Bind(upper(o1.m), LAMBDA o2 :
            IF o2.v = {} THEN {Ok(o2.m, {})}
            ELSE Bind(bottom_center(o2.m), LAMBDA o3 :
                IF ~o3.ok THEN {Err(o3.m, "upper2_for_ramp_wall")}
                ELSE {Ok(o3.m, KeepTwo(sorted(ord, o3.v))) : ord \in Orders(o2.v)})))

\* Mutant of upper2_for_ramp_wall: the cutoff of lines 57-59 is missing.
upper2_for_ramp_wall_NoCutoff(m) ==
    property_mutable_cache("upper2_for_ramp_wall", m, LAMBDA self :
        upper2_body(self, MaxRampCells + 1, SortedDescending))

\* Mutant of upper2_for_ramp_wall: decorated with property_immutable_cache.
upper2_for_ramp_wall_Immutable(m) ==
    property_immutable_cache("upper2_for_ramp_wall", m, LAMBDA self :
        upper2_body(self, UpperLimit, SortedDescending))

\* Mutant of upper2_for_ramp_wall: sorted ascending.
upper2_for_ramp_wall_Nearest(m) ==
    property_mutable_cache("upper2_for_ramp_wall", m, LAMBDA self :
        upper2_body(self, UpperLimit, SortedAscending))

\* Ramp.upper2_for_ramp_wall, lines 54-65.
upper2_for_ramp_wall(m) ==
    property_mutable_cache("upper2_for_ramp_wall", m, LAMBDA self :
        upper2_body(self, UpperLimit, SortedDescending))

\* Lines 105-106 and 118-119: an arbitrary point of lower, and the
\* intersection farther from it.
FartherFromLower(m, n, intersects) ==
    IF ~intersects.ok THEN {Err(m, n)}
    ELSE Bind(lower(m), LAMBDA o3 :
        IF o3.v = {} THEN {Err(o3.m, n)}
        ELSE {Ok(o3.m, far) :
                far \in UNION {MaxByDistance(intersects.v, Point2(anyLowerPoint)) :
                                   anyLowerPoint \in o3.v}})

\* Lines 99-107 and 112-120: the guard, the two pops out of the set the
\* second access returned, the circle intersection, and the choice.
middle_body(m, n, r2x2) ==
    Bind(upper2_for_ramp_wall(m), LAMBDA o1 :
        IF Cardinality(o1.v) # 2 THEN {Err(o1.m, n)}
        ELSE Bind(upper2_for_ramp_wall(o1.m), LAMBDA o2 :
            IF Cardinality(o2.v) # 2 THEN {Err(o2.m, n)}
            ELSE UNION {
                FartherFromLower(Popped(o2, "upper2_for_ramp_wall"), n,
                    circle_intersection(Shifted(firstPop),
                                        Shifted(CHOOSE q \in o2.v : q # firstPop), r2x2))
                : firstPop \in o2.v}))

\* Ramp.barracks_in_middle, lines 96-107 (radius 5 ** 0.5).
barracks_in_middle(m) ==
    property_immutable_cache("barracks_in_middle", m, LAMBDA self :
        middle_body(self, "barracks_in_middle", 10))

\* Ramp.depot_in_middle, lines 109-120 (radius 2.5 ** 0.5).
depot_in_middle(m) ==
    property_immutable_cache("depot_in_middle", m, LAMBDA self :
        middle_body(self, "depot_in_middle", 5))

\* Lines 129-133: the center of p1 and p2, and the intersections of the
\* circles around it and around depot_in_middle.
CornersAround(m, p1, p2) ==
    Bind(depot_in_middle(m), LAMBDA o3 :
        IF ~o3.ok THEN {Err(o3.m, "corner_depots")}
        ELSE {IF intersects.ok THEN Ok(o3.m, intersects.v) ELSE Err(o3.m, "corner_depots") :
                intersects \in {circle_intersection(
                                    towards(p1, p2, Div(distance_to(p1, p2), 2)), o3.v, 10)}})

\* Ramp.corner_depots, lines 122-134.
corner_depots(m) ==
    property_mutable_cache("corner_depots", m, LAMBDA self :
        Bind(upper2_for_ramp_wall(self), LAMBDA o1 :
            IF Cardinality(o1.v) # 2 THEN {Err(o1.m, "corner_depots")}
            ELSE Bind(upper2_for_ramp_wall(o1.m), LAMBDA o2 :
                IF Cardinality(o2.v) # 2 THEN {Err(o2.m, "corner_depots")}
                ELSE UNION {
                    CornersAround(Popped(o2, "upper2_for_ramp_wall"), Shifted(firstPop),
                                  Shifted(CHOOSE q \in o2.v : q # firstPop))
                    : firstPop \in o2.v})))

MaxX(S) == CHOOSE x \in {p[1] : p \in S} : \A p \in S : x >= p[1]

\* Ramp.barracks_can_fit_addon, lines 136-142.
barracks_can_fit_addon(m) ==
    property_immutable_cache("barracks_can_fit_addon", m, LAMBDA self :
        Bind(upper2_for_ramp_wall(self), LAMBDA o1 :
            IF Cardinality(o1.v) # 2 THEN {Err(o1.m, "barracks_can_fit_addon")}
            ELSE Bind(barracks_in_middle(o1.m), LAMBDA ob :
                IF ~ob.ok THEN {Err(ob.m, "barracks_can_fit_addon")}
                ELSE Bind(corner_depots(ob.m), LAMBDA oc :
                    IF ~oc.ok \/ oc.v = {} THEN {Err(oc.m, "barracks_can_fit_addon")}
                    ELSE {Ok(oc.m, ob.v[1] + Scale > MaxX(oc.v))}))))

\* Ramp.barracks_correct_placement, lines 144-152.
barracks_correct_placement(m) ==
    property_immutable_cache("barracks_correct_placement", m, LAMBDA self :
        Bind(upper2_for_ramp_wall(self), LAMBDA o1 :
            IF Cardinality(o1.v) # 2 THEN {Err(o1.m, "barracks_correct_placement")}
            ELSE Bind(barracks_can_fit_addon(o1.m), LAMBDA fit :
                IF ~fit.ok THEN {Err(fit.m, "barracks_correct_placement")}
                ELSE Bind(barracks_in_middle(fit.m), LAMBDA ob :
                    IF ~ob.ok THEN {Err(ob.m, "barracks_correct_placement")}
                    ELSE {Ok(ob.m, IF fit.v THEN ob.v
                                   ELSE offset(ob.v, <<-2 * Scale, 0>>))}))))

\* The accessors that return a set.
SetValued == {"points", "upper", "lower", "upper2_for_ramp_wall", "corner_depots"}

\* What the caller does to a set an accessor returned: clear() or add().
MutatedBy(v, how) == IF how = "clear" THEN {} ELSE v \cup {<<-1, -1>>}

\* A caller reads accessor n, with outs the ways the access can go, and may
\* mutate the returned set. A returned set is the cache's object or a fresh
\* copy, so mutating it later has the effect of reading it again and
\* mutating it at once.
Call(n, outs) ==
    \E o \in outs :
        \E how \in (IF o.ok /\ n \in SetValued THEN {"keep", "clear", "add"} ELSE {"keep"}) :
            LET m2 == IF how # "keep" /\ o.alias
                      THEN [o.m EXCEPT !.cache[n] = MutatedBy(o.v, how)]
                      ELSE o.m
            IN /\ cache' = m2.cache
               /\ first' = m2.first
               /\ changed' = m2.changed
               /\ raised' = (raised \/ ~o.ok)
               /\ mutated' = (mutated \/ how # "keep")
               /\ UNCHANGED <<ramp_points, terrain_height, gvars, svars>>

Call_size == Call("size", size(Memo))
Call_points == Call("points", Ramp_points(Memo))
Call_upper == Call("upper", upper(Memo))
Call_lower == Call("lower", lower(Memo))
Call_top_center == Call("top_center", top_center(Memo))
Call_bottom_center == Call("bottom_center", bottom_center(Memo))
Call_upper2_for_ramp_wall == Call("upper2_for_ramp_wall", upper2_for_ramp_wall(Memo))
Call_barracks_in_middle == Call("barracks_in_middle", barracks_in_middle(Memo))
Call_depot_in_middle == Call("depot_in_middle", depot_in_middle(Memo))
Call_corner_depots == Call("corner_depots", corner_depots(Memo))
Call_barracks_can_fit_addon == Call("barracks_can_fit_addon", barracks_can_fit_addon(Memo))
Call_barracks_correct_placement ==
    Call("barracks_correct_placement", barracks_correct_placement(Memo))

\* Ramp.__init__, lines 11-17, for the first cells of the grid, one at
\* least, on ground of two levels.
InitRamp ==
    /\ GroupsIdle
    /\ ScanIdle
    /\ ramp_points \in {FirstCells(k) : k \in 1 .. MaxRampCells}
    /\ terrain_height \in [RampCells -> {0, 1}]
    /\ \A c \in RampCells \ ramp_points : terrain_height[c] = 0
    /\ cache = EmptyCache
    /\ first = EmptyCache
    /\ changed = {}
    /\ raised = FALSE
    /\ mutated = FALSE

NextRamp ==
    \/ Call_size
    \/ Call_points
    \/ Call_upper
    \/ Call_lower
    \/ Call_top_center
    \/ Call_bottom_center
    \/ Call_upper2_for_ramp_wall
    \/ Call_barracks_in_middle
    \/ Call_depot_in_middle
    \/ Call_corner_depots
    \/ Call_barracks_can_fit_addon
    \/ Call_barracks_correct_placement

SpecRamp == InitRamp /\ [][NextRamp]_vars

-----------------------------------------------------------------------------
\* The loops of upper and lower followed point by point, the for loop
\* yielding the points of self._points in any order.

InitScan ==
    /\ GroupsIdle
    /\ ramp_points \in (SUBSET RampCells) \ {{}}
    /\ terrain_height \in [RampCells -> {0, 1, 2}]
    /\ \A c \in RampCells \ ramp_points : terrain_height[c] = 0
    /\ cache = EmptyCache
    /\ first = EmptyCache
    /\ changed = {}
    /\ raised = FALSE
    /\ mutated = FALSE
    /\ scan_pc = "upper"
    /\ scan_todo = ramp_points
    /\ scan_upper = UpperStart
    /\ scan_lower = LowerStart

\* Lines 43-51 for the next point.
UpperIter ==
    /\ scan_pc = "upper"
    /\ \E p \in scan_todo :
        /\ scan_upper' = UpperStep(scan_upper, p)
        /\ scan_todo' = scan_todo \ {p}
    /\ UNCHANGED <<scan_pc, scan_lower, gvars, rvars>>

\* Line 52; lower is read next.
UpperReturn ==
    /\ scan_pc = "upper"
    /\ scan_todo = {}
    /\ scan_pc' = "lower"
    /\ scan_todo' = ramp_points
    /\ UNCHANGED <<scan_upper, scan_lower, gvars, rvars>>

\* Lines 78-86 for the next point.
LowerIter ==
    /\ scan_pc = "lower"
    /\ \E p \in scan_todo :
        /\ scan_lower' = LowerStep(scan_lower, p)
        /\ scan_todo' = scan_todo \ {p}
    /\ UNCHANGED <<scan_pc, scan_upper, gvars, rvars>>

\* Line 87.
LowerReturn ==
    /\ scan_pc = "lower"
    /\ scan_todo = {}
    /\ scan_pc' = "returned"
    /\ UNCHANGED <<scan_todo, scan_upper, scan_lower, gvars, rvars>>

NextScan == UpperIter \/ UpperReturn \/ LowerIter \/ LowerReturn

SpecScan == InitScan /\ [][NextScan]_vars

-----------------------------------------------------------------------------
\* Reference notions the grouping claims are stated with.

RECURSIVE Closure(_, _, _)
\* The points of g linked to S by chains of hops of Manhattan distance <= d.
Closure(S, g, d) ==
    LET nxt == S \cup {q \in g : \E p \in S : Manhattan(p, q) <= d}
    IN IF nxt = S THEN S ELSE Closure(nxt, g, d)

ConnectedSet(g, d) == \A p \in g : Closure({p}, g, d) = g

Components == {Closure({p}, points, max_distance_between_points) : p \in points}

RECURSIVE RefFlood(_, _, _)
\* The flood fill of lines 226-238 with the offsets taken in sorted order.
RefFlood(q, group, rem) ==
    IF q = <<>> THEN group
    ELSE LET b == Head(q)
             new == {p \in rem : <<p[1] - b[1], p[2] - b[2]>>
                                     \in nearby(max_distance_between_points)}
         IN RefFlood(Tail(q) \o SortedSeq(new), group \cup new, rem \ new)

RECURSIVE RefGroups(_, _)
\* The loop of lines 218-240 with the least remaining cell as every seed.
RefGroups(rem, acc) ==
    IF rem = {} THEN acc
    ELSE LET start == Least(rem)
             g == RefFlood(<<start>>, {start}, rem \ {start})
         IN RefGroups(rem \ g,
                      IF MeetsMinimum(g, minimum_points_per_group) THEN acc \cup {g} ELSE acc)

TotalColorings == Cardinality({c \in Cells : colorings[c] = 1})

\* The points of the Ramp on its highest and on its lowest ground.
Highest == {p \in ramp_points : \A q \in ramp_points : terrain_height[p] >= terrain_height[q]}
Lowest == {p \in ramp_points : \A q \in ramp_points : terrain_height[p] <= terrain_height[q]}

\* A Ramp whose highest ground has more points than the cutoff, or one.
Degenerate == Cardinality(Highest) > UpperLimit \/ Cardinality(Highest) = 1

\* Every way an access can go raises, or returns.
Raises(outs) == \A o \in outs : ~o.ok
Returns(outs) == \A o \in outs : o.ok

PlainNames == {"points", "size", "upper", "lower", "top_center", "bottom_center"}
MiddleNames == {"barracks_in_middle", "depot_in_middle"}

\* The circles lines 104 and 117 intersect, for either order of the pops.
WallCircles(n) ==
    {circle_intersection(Shifted(p), Shifted(q), IF n = "barracks_in_middle" THEN 10 ELSE 5) :
        <<p, q>> \in {pq \in cache.upper2_for_ramp_wall \X cache.upper2_for_ramp_wall :
                        pq[1] # pq[2]}}

-----------------------------------------------------------------------------
\* C1: every returned group is connected under the dilated adjacency (chains
\* of hops of Manhattan distance <= max_distance_between_points inside the
\* group), and two distinct returned groups are disjoint with no point of one
\* within that distance of a point of the other.
C1_GroupsConnectedAndSeparated ==
    pc = "done" =>
        \A i \in DOMAIN foundGroups :
            /\ ConnectedSet(foundGroups[i], max_distance_between_points)
            /\ \A j \in DOMAIN foundGroups :
                i # j =>
                    /\ foundGroups[i] \cap foundGroups[j] = {}
                    /\ \A p \in foundGroups[i], q \in foundGroups[j] :
                           Manhattan(p, q) > max_distance_between_points

\* Two groups are returned, one of them holding two points that are linked
\* only through a third one.
C1_Witness ==
    /\ pc = "done"
    /\ Len(foundGroups) >= 2
    /\ \E i \in DOMAIN foundGroups : \E p, q \in foundGroups[i] :
           Manhattan(p, q) > max_distance_between_points

\* C2: a connected component of the Candidate Set is returned (whole, as one
\* group) if and only if its size is >= minimum_points_per_group; no point
\* of a component one cell short of the minimum is in any returned group.
C2_MinimumSizeFilter ==
    pc = "done" =>
        /\ Range(foundGroups) \subseteq Components
        /\ \A c \in Components :
            /\ (c \in Range(foundGroups)) <=>
                   (Cardinality(c) >= minimum_points_per_group)
            /\ Cardinality(c) = minimum_points_per_group - 1 =>
                   \A g \in Range(foundGroups) : g \cap c = {}

\* A component of exactly the minimum size was returned and one of a cell
\* less was dropped.
C2_Witness ==
    /\ pc = "done"
    /\ minimum_points_per_group >= 2
    /\ \E c1, c2 \in Components :
        /\ Cardinality(c1) = minimum_points_per_group
        /\ Cardinality(c2) = minimum_points_per_group - 1
        /\ c1 \in Range(foundGroups)
        /\ c2 \notin Range(foundGroups)

\* C3: whatever seed remaining.pop() yields and in whatever order the
\* offsets are enumerated, the set of returned groups is the one the run
\* with least-cell seeds and sorted offsets returns; no group is listed twice.
C3_PartitionIndependentOfOrder ==
    pc = "done" =>
        /\ Range(foundGroups) = RefGroups(points, {})
        /\ Len(foundGroups) = Cardinality(Range(foundGroups))

\* A run that started from another seed than the reference run and returned
\* at least two groups, the least cell not in the first one.
C3_Witness ==
    /\ pc = "done"
    /\ Len(foundGroups) >= 2
    /\ Least(points) \notin foundGroups[1]
    /\ picture[Least(points)] > 0

\* C9: _find_groups terminates, no cell is given a color >= 0 twice and a
\* colored cell keeps its color; when it returns, the number of colorings
\* equals the size of the Candidate Set (each candidate colored once).
C9_TerminatesColoringOnce ==
    /\ [][\A c \in Cells : picture[c] >= 0 => picture'[c] = picture[c]]_vars
    /\ [](\A c \in Cells : colorings[c] <= 1)
    /\ <>(/\ pc = "done"
          /\ TotalColorings = Cardinality(points)
          /\ \A c \in Cells : (colorings[c] = 1) <=> (c \in points)
          /\ \A c \in points : picture[c] >= 0)

\* The run returned after coloring a Candidate Set of the largest size,
\* with more than one color used.
C9_Witness ==
    /\ pc = "done"
    /\ Cardinality(points) = MaxPoints
    /\ TotalColorings = MaxPoints
    /\ currentColor >= 1

C4_DegenerateRampRaises ==
    Degenerate =>
        /\ Raises(barracks_in_middle(Memo))
        /\ Raises(depot_in_middle(Memo))
        /\ Raises(corner_depots(Memo))
        /\ Raises(barracks_can_fit_addon(Memo))
        /\ Raises(barracks_correct_placement(Memo))
        /\ Returns(Ramp_points(Memo))
        /\ Returns(size(Memo))
        /\ Returns(upper(Memo))
        /\ Returns(lower(Memo))
        /\ Returns(top_center(Memo))
        /\ Returns(bottom_center(Memo))

\* A wall-placement accessor has raised on a Ramp with more than 5 highest
\* points, and every plain accessor has returned.
C4_Witness ==
    /\ raised
    /\ Cardinality(Highest) > UpperLimit
    /\ PlainNames \subseteq cache.has

\* C5: whatever accessors were called, with their pops, and whatever sets
\* the caller mutated, every access has returned the value of the first
\* access, and so will the next one.
C5_AccessorsIdempotent ==
    /\ changed = {}
    /\ \A n \in cache.has : cache[n] = first[n]

\* The caller has mutated a returned set, and the accessors that pop have
\* returned.
C5_Witness ==
    /\ mutated
    /\ MiddleNames \cup {"upper2_for_ramp_wall", "corner_depots", "barracks_correct_placement"}
           \subseteq cache.has

\* C6: in whatever order the loops took the points, upper has returned the
\* points of maximal height and lower the points of minimal height.
C6_UpperLowerAreExtremes ==
    /\ scan_pc \in {"lower", "returned"} => scan_upper.result = Highest
    /\ scan_pc = "returned" => scan_lower.result = Lowest

\* Both loops have returned on a Ramp with ties on both extremes and a
\* point in between.
C6_Witness ==
    /\ scan_pc = "returned"
    /\ Cardinality(Highest) >= 2
    /\ Cardinality(Lowest) >= 2
    /\ Highest \cup Lowest # ramp_points

\* C7: upper2_for_ramp_wall is empty when upper has more than 5 points;
\* otherwise it is a subset of upper with min(2, |upper|) points, none of
\* them nearer to bottom_center than an upper point left out, so it is
\* upper itself when upper has 1 or 2 points.
C7_UpperTwoFarthest ==
    "upper2_for_ramp_wall" \in cache.has =>
        LET upper2 == cache.upper2_for_ramp_wall
            bc == Center(Lowest)
        IN IF Cardinality(Highest) > UpperLimit THEN upper2 = {}
           ELSE /\ upper2 \subseteq Highest
                /\ Cardinality(upper2) = IF Cardinality(Highest) < 2 THEN Cardinality(Highest) ELSE 2
                /\ \A kept \in upper2 : \A out \in Highest \ upper2 :
                       SortKey(kept, bc) >= SortKey(out, bc)
                /\ Cardinality(Highest) <= 2 => upper2 = Highest

\* upper has exactly 5 points and a point nearer to bottom_center than
\* both kept points was left out.
C7_Witness ==
    /\ "upper2_for_ramp_wall" \in cache.has
    /\ Cardinality(Highest) = UpperLimit
    /\ Cardinality(cache.upper2_for_ramp_wall) = 2
    /\ \E out \in Highest \ cache.upper2_for_ramp_wall :
           \A kept \in cache.upper2_for_ramp_wall :
               SortKey(kept, Center(Lowest)) > SortKey(out, Center(Lowest))

\* C8: the value barracks_in_middle and depot_in_middle returned is, of
\* the two circle intersections, one farthest from every point of lower:
\* the selection is the same whichever point of lower is the reference.
C8_SelectionIndependentOfReference ==
    \A n \in MiddleNames \cap cache.has :
        \A intersects \in WallCircles(n) :
            (intersects.ok /\ Cardinality(intersects.v) = 2 /\ cache[n] \in intersects.v) =>
                \A anyLowerPoint \in Lowest :
                    cache[n] \in MaxByDistance(intersects.v, Point2(anyLowerPoint))

====
